---- MODULE Spec2Model ----
(***************************************************************************)
(* Model of src/src/main.rs: the glyph-outline to normalized-primitive     *)
(* pipeline.  One glyph outline is converted command by command into a     *)
(* Shape, the shapes are collected, a global bounding box is folded, all   *)
(* points are rescaled and quantized, and the result is written to a file. *)
(*                                                                         *)
(* Coordinates are f32 in the source.  The model uses small non-negative   *)
(* integers (all exactly representable in f32) and one sentinel for NaN.   *)
(* A normalized coordinate is kept as the quantized i32 n of map_scale; it  *)
(* stands for the f32 value (n as f32) / 1000.0.  For the sample            *)
(* coordinates below the f32 quotient and product round to the same        *)
(* integer part as the exact quotient.  The outline source is read one     *)
(* command at a time: `commands` is the part of the vector iterated so     *)
(* far and `outlines` the outlines of the glyphs already finished.         *)
(***************************************************************************)
EXTENDS Integers, Sequences, FiniteSets, TLC

\* ---------------------------------------------------------------- bounds
MaxGlyphs == 2
MaxCmds == 4

\* ------------------------------------------------------------- f32 / i32
NaN == 0 - 1
I32Max == 2147483647
I32Min == (0 - 2147483647) - 1

\* Sample coordinates handed out by the outline source: end points, control
\* points, and one non-finite end point (delivered by a LineTo).
EndPoints == {<<0, 1>>, <<2, 0>>}
CtrlPoints == {<<1, 3>>}
NaNPoints == {<<NaN, 0>>}

\* ---------------------------------------------------------------- Option
None == <<>>
Some(v) == <<v>>
Unwrap(o) == o[1]

\* ------------------------------------------------------------ primitives
Line(p0, p1) == [kind |-> "Line", pts |-> <<p0, p1>>]
Quadratic(p0, c, p1) == [kind |-> "Quadratic", pts |-> <<p0, c, p1>>]
Bezier(p0, c0, c1, p1) == [kind |-> "Bezier", pts |-> <<p0, c0, c1, p1>>]
Shape(prims) == [primitives |-> prims]

\* -------------------------------------------------------------- commands
Command ==
    {[cmd |-> "MoveTo", pts |-> <<p>>] : p \in EndPoints}
    \cup {[cmd |-> "QuadTo", pts |-> <<c, p>>] : c \in CtrlPoints, p \in EndPoints}
    \cup {[cmd |-> "CurveTo", pts |-> <<cp[1], cp[2], p>>] :
             cp \in CtrlPoints \X CtrlPoints, p \in EndPoints}
    \cup {[cmd |-> "LineTo", pts |-> <<p>>] : p \in EndPoints \cup NaNPoints}
    \cup {[cmd |-> "Close", pts |-> <<>>]}

\* ------------------------------------------------- the converter's state
Conv(lp, fp, prims) ==
    [last_point |-> lp, first_point |-> fp, primitives |-> prims, err |-> "ok"]

\* Option::expect on None: the process panics.
Abort(s) == [s EXCEPT !.err = "GeometryError"]

\* Variant: every MoveTo overwrites the closing anchor.
MoveToArm_AlwaysSetsFirst(s, end_point) ==
    [s EXCEPT !.first_point = Some(end_point),
              !.last_point = Some(end_point)]

MoveToArm(s, end_point) ==
    [s EXCEPT !.first_point = IF @ = None THEN Some(end_point) ELSE @,
              !.last_point = Some(end_point)]

QuadToArm(s, ctrl_point0, end_point) ==
    IF s.last_point = None THEN Abort(s)
    ELSE [s EXCEPT !.primitives =
                       Append(@, Quadratic(Unwrap(s.last_point), ctrl_point0, end_point)),
                   !.last_point = Some(end_point)]

CurveToArm(s, ctrl_point0, ctrl_point1, end_point) ==
    IF s.last_point = None THEN Abort(s)
    ELSE [s EXCEPT !.primitives =
                       Append(@, Bezier(Unwrap(s.last_point), ctrl_point0,
                                        ctrl_point1, end_point)),
                   !.last_point = Some(end_point)]

\* Variant: the LineTo arm forgets to advance last_point.
LineToArm_KeepsLastPoint(s, end_point) ==
    IF s.last_point = None THEN Abort(s)
    ELSE [s EXCEPT !.primitives = Append(@, Line(Unwrap(s.last_point), end_point))]

LineToArm(s, end_point) ==
    IF s.last_point = None THEN Abort(s)
    ELSE [s EXCEPT !.primitives = Append(@, Line(Unwrap(s.last_point), end_point)),
                   !.last_point = Some(end_point)]

\* Variant: first_point is read without take(), so it stays set.
CloseArm_NoTake(s) ==
    IF s.last_point = None THEN Abort(s)
    ELSE IF s.first_point = None THEN Abort(s)
    ELSE [s EXCEPT !.primitives =
                       Append(@, Line(Unwrap(s.last_point), Unwrap(s.first_point))),
                   !.last_point = s.first_point]

CloseArm(s) ==
    IF s.last_point = None THEN Abort(s)
    ELSE IF s.first_point = None THEN Abort(s)
    ELSE [s EXCEPT !.primitives =
                       Append(@, Line(Unwrap(s.last_point), Unwrap(s.first_point))),
                   !.last_point = s.first_point,
                   !.first_point = None]

\* match command { ... }
Match(s, command) ==
    CASE command.cmd = "MoveTo" -> MoveToArm(s, command.pts[1])
      [] command.cmd = "QuadTo" -> QuadToArm(s, command.pts[1], command.pts[2])
      [] command.cmd = "CurveTo" ->
             CurveToArm(s, command.pts[1], command.pts[2], command.pts[3])
      [] command.cmd = "LineTo" -> LineToArm(s, command.pts[1])
      [] command.cmd = "Close" -> CloseArm(s)

\* ----------------------------------------------------------- Point::min/max
F32Min(a, b) == IF a = NaN THEN b ELSE IF b = NaN THEN a ELSE IF a < b THEN a ELSE b
F32Max(a, b) == IF a = NaN THEN b ELSE IF b = NaN THEN a ELSE IF a > b THEN a ELSE b
PointMin(p, other) == <<F32Min(p[1], other[1]), F32Min(p[2], other[2])>>
\* Variant: Point::max calls f32::min.
PointMax_UsesMin(p, other) == <<F32Min(p[1], other[1]), F32Min(p[2], other[2])>>
PointMax(p, other) == <<F32Max(p[1], other[1]), F32Max(p[2], other[2])>>

\* ------------------------------------------------------------ Shape::get_bb
RECURSIVE Flatten(_)
Flatten(prims) ==
    IF prims = <<>> THEN <<>> ELSE Head(prims).pts \o Flatten(Tail(prims))

Coords(pts, k) == {pts[i][k] : i \in DOMAIN pts}
MinOf(S) == CHOOSE v \in S : \A w \in S : v <= w
MaxOf(S) == CHOOSE v \in S : \A w \in S : v >= w

\* partial_cmp returns None on NaN once two values are compared; min_by on an
\* empty iterator returns None.  A non-empty shape always holds >= 2 points.
get_bb(shape) ==
    LET pts == Flatten(shape.primitives)
        xs == Coords(pts, 1)
        ys == Coords(pts, 2)
    IN  IF pts = <<>> THEN [err |-> "EmptyInputError", bb |-> None]
        ELSE IF NaN \in xs \cup ys THEN [err |-> "NumericError", bb |-> None]
        ELSE [err |-> "ok",
              bb |-> <<(<<MinOf(xs), MinOf(ys)>>), (<<MaxOf(xs), MaxOf(ys)>>)>>]

\* shapes.iter().map(get_bb).fold(first bb, |(min_p, max_p), (p0, p1)| ...)
RECURSIVE FoldBB(_, _)
FoldBB(acc, bbs) ==
    IF bbs = <<>> THEN acc
    ELSE FoldBB(<<PointMin(acc[1], Head(bbs)[1]), PointMax(acc[2], Head(bbs)[2])>>,
                Tail(bbs))

\* Variant: an empty collection gets a default box instead of a panic.
GlobalBB_DefaultBox(shs) ==
    IF shs = <<>> THEN [err |-> "ok", bb |-> <<(<<0, 0>>), (<<0, 0>>)>>]
    ELSE LET r == [i \in DOMAIN shs |-> get_bb(shs[i])]
             bad == {i \in DOMAIN shs : r[i].err # "ok"}
         IN  IF bad # {} THEN [err |-> r[MinOf(bad)].err, bb |-> None]
             ELSE [err |-> "ok",
                   bb |-> FoldBB(r[1].bb, [i \in DOMAIN shs |-> r[i].bb])]

\* The first get_bb that panics ends the process.
GlobalBB(shs) ==
    IF shs = <<>> THEN [err |-> "EmptyInputError", bb |-> None]
    ELSE LET r == [i \in DOMAIN shs |-> get_bb(shs[i])]
             bad == {i \in DOMAIN shs : r[i].err # "ok"}
         IN  IF bad # {} THEN [err |-> r[MinOf(bad)].err, bb |-> None]
             ELSE [err |-> "ok",
                   bb |-> FoldBB(r[1].bb, [i \in DOMAIN shs |-> r[i].bb])]

\* --------------------------------------------------------- Point::map_scale
\* (v as i32) truncates toward zero, saturates, and maps NaN to 0.
TruncDiv(a, b) == IF a >= 0 THEN a \div b ELSE 0 - ((0 - a) \div b)
Saturate(n) == IF n > I32Max THEN I32Max ELSE IF n < I32Min THEN I32Min ELSE n

\* ((num / den) * 1000.0) as i32, for f32 num and den:
\* 0/0 is NaN, a non-zero value over 0 is an infinity.
ScaleAsI32(num, den) ==
    IF den = 0
    THEN IF num = 0 THEN 0 ELSE IF num > 0 THEN I32Max ELSE I32Min
    ELSE Saturate(TruncDiv(num * 1000, den))

\* Variant: the denominator is the horizontal extent.
map_scale_HorizontalExtent(p, min_point, max_point) ==
    <<ScaleAsI32(p[1] - min_point[1], max_point[1] - min_point[1]),
      ScaleAsI32(p[2] - min_point[2], max_point[1] - min_point[1])>>

\* The result is kept as the quantized i32 n; the stored coordinate is
\* (n as f32) / 1000.0, which is exact for every |n| < 2^24.
map_scale(p, min_point, max_point) ==
    <<ScaleAsI32(p[1] - min_point[1], max_point[2] - min_point[2]),
      ScaleAsI32(p[2] - min_point[2], max_point[2] - min_point[2])>>

remap_primitive(primitive, min_point, max_point) ==
    [primitive EXCEPT !.pts =
        [j \in DOMAIN primitive.pts |-> map_scale(primitive.pts[j], min_point, max_point)]]

remap_shape(shape, min_point, max_point) ==
    Shape([i \in DOMAIN shape.primitives |->
              remap_primitive(shape.primitives[i], min_point, max_point)])

\* ===================================================================== state
VARIABLES pc, outlines, commands, last_point, first_point, primitives,
          shapes, points, file, err

vars == <<pc, outlines, commands, last_point, first_point, primitives,
          shapes, points, file, err>>

RECURSIVE SumLen(_)
SumLen(os) ==
    IF os = <<>> THEN 0
    ELSE (IF Head(os) = None THEN 0 ELSE Len(Unwrap(Head(os)))) + SumLen(Tail(os))

\* Commands read from the outline source so far.
Consumed == SumLen(outlines) + (IF pc = "commands" THEN Len(commands) ELSE 0)

Init ==
    /\ pc = "symbols"
    /\ outlines = <<>>
    /\ commands = <<>>
    /\ last_point = None
    /\ first_point = None
    /\ primitives = <<>>
    /\ shapes = <<>>
    /\ points = None
    /\ file = "absent"
    /\ err = "ok"

\* get_outline_commands(..) returns None: expect panics.
NoOutline ==
    /\ pc = "symbols"
    /\ Len(outlines) < MaxGlyphs
    /\ outlines' = Append(outlines, None)
    /\ pc' = "panic"
    /\ err' = "ShapingFailure"
    /\ UNCHANGED <<commands, last_point, first_point, primitives, shapes, points, file>>

\* Variant: no `continue`, the empty glyph pushes an empty Shape.
EmptyOutline_PushesShape ==
    /\ pc = "symbols"
    /\ Len(outlines) < MaxGlyphs
    /\ outlines' = Append(outlines, Some(<<>>))
    /\ commands' = <<>>
    /\ last_point' = None
    /\ first_point' = None
    /\ primitives' = <<>>
    /\ shapes' = Append(shapes, Shape(<<>>))
    /\ UNCHANGED <<pc, points, file, err>>

\* commands.len() == 0: continue.
EmptyOutline ==
    /\ pc = "symbols"
    /\ Len(outlines) < MaxGlyphs
    /\ outlines' = Append(outlines, Some(<<>>))
    /\ commands' = <<>>
    /\ last_point' = None
    /\ first_point' = None
    /\ primitives' = <<>>
    /\ UNCHANGED <<pc, shapes, points, file, err>>

\* Variant: last_point and first_point are declared outside the glyph loop.
BeginOutline_KeepsPoints ==
    /\ pc = "symbols"
    /\ Len(outlines) < MaxGlyphs
    /\ Consumed < MaxCmds
    /\ commands' = <<>>
    /\ primitives' = <<>>
    /\ pc' = "commands"
    /\ UNCHANGED <<last_point, first_point, outlines, shapes, points, file, err>>

\* A glyph with at least one command: enter the command loop.
BeginOutline ==
    /\ pc = "symbols"
    /\ Len(outlines) < MaxGlyphs
    /\ Consumed < MaxCmds
    /\ commands' = <<>>
    /\ last_point' = None
    /\ first_point' = None
    /\ primitives' = <<>>
    /\ pc' = "commands"
    /\ UNCHANGED <<outlines, shapes, points, file, err>>

\* One iteration of `for command in commands`.
ForCommand ==
    /\ pc = "commands"
    /\ Consumed < MaxCmds
    /\ \E command \in Command :
          LET s == Match(Conv(last_point, first_point, primitives), command)
          IN  /\ commands' = Append(commands, command)
              /\ last_point' = s.last_point
              /\ first_point' = s.first_point
              /\ primitives' = s.primitives
              /\ err' = s.err
              /\ pc' = IF s.err = "ok" THEN "commands" ELSE "panic"
    /\ UNCHANGED <<outlines, shapes, points, file>>

\* The command loop is exhausted: shapes.push(Shape { primitives }).
EndOutline ==
    /\ pc = "commands"
    /\ Len(commands) >= 1
    /\ shapes' = Append(shapes, Shape(primitives))
    /\ outlines' = Append(outlines, Some(commands))
    /\ pc' = "symbols"
    /\ UNCHANGED <<commands, last_point, first_point, primitives, points, file, err>>

\* The loop over symbols is exhausted.
EndSymbols ==
    /\ pc = "symbols"
    /\ pc' = "bb"
    /\ UNCHANGED <<outlines, commands, last_point, first_point, primitives,
                   shapes, points, file, err>>

\* Variant: the output file is opened before the bounding box is computed.
BoundingBox_CreatesFile ==
    /\ pc = "bb"
    /\ file' = "created"
    /\ LET r == GlobalBB(shapes)
       IN  /\ err' = r.err
           /\ points' = r.bb
           /\ pc' = IF r.err = "ok" THEN "remap" ELSE "panic"
    /\ UNCHANGED <<outlines, commands, last_point, first_point, primitives, shapes>>

\* shapes.first().expect(..).get_bb() and the fold over every shape's box.
BoundingBox ==
    /\ pc = "bb"
    /\ LET r == GlobalBB(shapes)
       IN  /\ err' = r.err
           /\ points' = r.bb
           /\ pc' = IF r.err = "ok" THEN "remap" ELSE "panic"
    /\ UNCHANGED <<outlines, commands, last_point, first_point, primitives, shapes, file>>

\* shapes.into_iter().map(remap_shape).collect()
Remap ==
    /\ pc = "remap"
    /\ shapes' = [i \in DOMAIN shapes |->
                     remap_shape(shapes[i], points[1], points[2])]
    /\ pc' = "create"
    /\ UNCHANGED <<outlines, commands, last_point, first_point, primitives,
                   points, file, err>>

\* serde_json::to_string and File::create.
CreateFile ==
    /\ pc = "create"
    /\ file' = "created"
    /\ pc' = "write"
    /\ UNCHANGED <<outlines, commands, last_point, first_point, primitives,
                   shapes, points, err>>

CreateFileFails ==
    /\ pc = "create"
    /\ pc' = "panic"
    /\ err' = "IOError"
    /\ UNCHANGED <<outlines, commands, last_point, first_point, primitives,
                   shapes, points, file>>

WriteFile ==
    /\ pc = "write"
    /\ file' = "written"
    /\ pc' = "done"
    /\ UNCHANGED <<outlines, commands, last_point, first_point, primitives,
                   shapes, points, err>>

WriteFileFails ==
    /\ pc = "write"
    /\ pc' = "panic"
    /\ err' = "IOError"
    /\ UNCHANGED <<outlines, commands, last_point, first_point, primitives,
                   shapes, points, file>>

Next ==
    \/ NoOutline
    \/ EmptyOutline
    \/ BeginOutline
    \/ ForCommand
    \/ EndOutline
    \/ EndSymbols
    \/ BoundingBox
    \/ Remap
    \/ CreateFile
    \/ CreateFileFails
    \/ WriteFile
    \/ WriteFileFails

Spec == Init /\ [][Next]_vars

\* ---------------------------------------------- the converter as a function
\* Lines 68-119 run over a whole command vector.
RECURSIVE ConvertFrom(_, _)
ConvertFrom(s, cmds) ==
    IF cmds = <<>> THEN s ELSE ConvertFrom(Match(s, Head(cmds)), Tail(cmds))

Convert(cmds) == ConvertFrom(Conv(None, None, <<>>), cmds)

\* Lines 60-124 run over every outline fetched so far.
RECURSIVE ConvertAll(_)
ConvertAll(os) ==
    IF os = <<>> THEN <<>>
    ELSE IF Head(os) = None \/ Head(os) = Some(<<>>) THEN ConvertAll(Tail(os))
    ELSE <<Shape(Convert(Unwrap(Head(os))).primitives)>> \o ConvertAll(Tail(os))

\* ================================================================== claims
Start(prim) == prim.pts[1]
End(prim) == prim.pts[Len(prim.pts)]
IsMove(c) == c.cmd = "MoveTo"
IsClose(c) == c.cmd = "Close"

\* Every arm but MoveTo pushes one primitive: primitive i comes from the
\* i-th command that is not a MoveTo.
NonMoves(cmds) == {j \in DOMAIN cmds : ~IsMove(cmds[j])}
EmitIdx(cmds, i) ==
    CHOOSE j \in NonMoves(cmds) : Cardinality({k \in NonMoves(cmds) : k <= j}) = i

\* The shapes hold raw coordinates / normalized coordinates.
NonEmptyOutlines == {g \in DOMAIN outlines : outlines[g] # None /\ outlines[g] # Some(<<>>)}
Rank(g) == Cardinality({h \in NonEmptyOutlines : h <= g})

Continuous(cmds, prims) ==
    \A i \in 1 .. (Len(prims) - 1) :
        LET a == EmitIdx(cmds, i)
            b == EmitIdx(cmds, i + 1)
            moves == {j \in (a + 1) .. (b - 1) : IsMove(cmds[j])}
        IN  IF moves = {}
            THEN End(prims[i]) = Start(prims[i + 1])
            ELSE Start(prims[i + 1]) = cmds[MaxOf(moves)].pts[1]

\* C1: path continuity.  In the shape being built and in every shape of the
\* collection (read between glyphs and before normalization), the end point of primitive i is the start point of primitive
\* i+1, unless a MoveTo was processed between the two commands that emitted
\* them, and then primitive i+1 starts at the most recent MoveTo target.
C1_Continuity ==
    /\ pc \in {"commands", "panic"} /\ err \in {"ok", "GeometryError"}
           => Continuous(commands, primitives)
    /\ pc \in {"symbols", "bb", "remap"} =>
           \A g \in NonEmptyOutlines :
               Rank(g) <= Len(shapes)
                   => Continuous(Unwrap(outlines[g]), shapes[Rank(g)].primitives)

\* Three primitives in a row emitted without a MoveTo between them.
C1_Witness ==
    /\ pc = "bb"
    /\ Len(shapes) = 1
    /\ Len(shapes[1].primitives) = 3
    /\ Len(Unwrap(outlines[1])) = 4
    /\ Start(shapes[1].primitives[3]) # Start(shapes[1].primitives[1])

\* C2: a LineTo, QuadTo, CurveTo or Close read before any MoveTo of the same
\* glyph aborts with GeometryError: nothing is emitted for it and no file is
\* produced, whatever earlier glyphs did.
C2_NoPreviousPoint ==
    (/\ pc \in {"commands", "panic"}
     /\ err \in {"ok", "GeometryError"}
     /\ commands # <<>>
     /\ \E j \in DOMAIN commands :
            ~IsMove(commands[j]) /\ \A k \in 1 .. (j - 1) : ~IsMove(commands[k]))
        => /\ pc = "panic"
           /\ err = "GeometryError"
           /\ Len(commands) = 1
           /\ primitives = <<>>
           /\ shapes = ConvertAll(outlines)
           /\ file = "absent"

\* A second glyph starts with a LineTo after a first glyph that had a MoveTo.
C2_Witness ==
    /\ pc = "panic"
    /\ err = "GeometryError"
    /\ Len(shapes) = 1
    /\ shapes[1].primitives # <<>>
    /\ Len(commands) = 1
    /\ commands[1].cmd = "LineTo"
    /\ last_point = None

FirstMoveTarget(cmds) ==
    cmds[MinOf({j \in DOMAIN cmds : IsMove(cmds[j])})].pts[1]

\* The commands of cmds[1..j-1] read after the last Close before j.
Segment(cmds, j) ==
    LET closes == {k \in 1 .. (j - 1) : IsClose(cmds[k])}
        from == IF closes = {} THEN 1 ELSE MaxOf(closes) + 1
    IN  {k \in from .. (j - 1) : IsMove(cmds[k])}

\* The closing anchor before command j: the first MoveTo target since the
\* last Close (or since the start of the glyph), if there is one.
AnchorAt(cmds, j) ==
    IF Segment(cmds, j) = {} THEN None
    ELSE Some(cmds[MinOf(Segment(cmds, j))].pts[1])

\* C3 as stated: only the first MoveTo of the glyph ever sets first_point, and
\* every Close emits a Line ending at that first MoveTo target.
C3_Original ==
    pc = "commands" =>
        /\ first_point # None => first_point = Some(FirstMoveTarget(commands))
        /\ \A i \in DOMAIN primitives :
               IsClose(commands[EmitIdx(commands, i)])
                   => End(primitives[i]) = FirstMoveTarget(commands)

\* C3 amended: a MoveTo sets first_point only when it is unset, which is at
\* the first MoveTo of the glyph and at the first MoveTo after each Close;
\* every MoveTo sets last_point.  Each Close emits a Line ending at the first
\* MoveTo target since the previous Close (or since the start of the glyph).
C3_AnchorSinceLastClose ==
    pc = "commands" =>
        /\ first_point = AnchorAt(commands, Len(commands) + 1)
        /\ (commands # <<>> /\ IsMove(commands[Len(commands)]))
               => last_point = Some(commands[Len(commands)].pts[1])
        /\ \A i \in DOMAIN primitives :
               LET j == EmitIdx(commands, i)
               IN  IsClose(commands[j])
                       => Some(End(primitives[i])) = AnchorAt(commands, j)

\* Two closed subpaths: the second Close ends at its own MoveTo target.
C3_Witness ==
    /\ pc = "commands"
    /\ Len(commands) = 4
    /\ IsMove(commands[1]) /\ IsClose(commands[2])
    /\ IsMove(commands[3]) /\ IsClose(commands[4])
    /\ commands[3].pts[1] # commands[1].pts[1]
    /\ End(primitives[2]) = commands[3].pts[1]

\* The process is past the bounding-box stage.
PastBB ==
    \/ pc \in {"remap", "create", "write", "done"}
    \/ pc = "panic" /\ err \in {"EmptyInputError", "NumericError", "IOError"}

\* C4: with no glyph, or only glyphs without commands, the collection is
\* empty, the request for the global bounding box fails with
\* EmptyInputError, and the output file has not been created.
C4_EmptyCollection ==
    /\ (pc = "bb" /\ \A g \in DOMAIN outlines : outlines[g] = Some(<<>>))
           => shapes = <<>>
    /\ (PastBB /\ shapes = <<>>)
           => pc = "panic" /\ err = "EmptyInputError" /\ points = None /\ file = "absent"

\* An all-whitespace text: glyphs, but none with geometry.
C4_Witness ==
    /\ pc = "panic"
    /\ err = "EmptyInputError"
    /\ shapes = <<>>
    /\ Len(outlines) >= 1

\* The shape collection shs rescaled with the bounding box bb.
Normalized(shs, bb) ==
    [i \in DOMAIN shs |-> remap_shape(shs[i], bb[1], bb[2])]

FatalBeforeOutput ==
    {"ShapingFailure", "GeometryError", "EmptyInputError", "NumericError"}

\* C5: no partial output.  A run that ended in ShapingFailure, GeometryError,
\* EmptyInputError or NumericError never created the file; once the file
\* exists every glyph has been converted and every shape normalized (the
\* collection is compared right after File::create; it is not changed later).
C5_NoPartialOutput ==
    /\ (pc = "panic" /\ err \in FatalBeforeOutput) => file = "absent"
    /\ file # "absent" =>
           /\ pc \in {"write", "done"} \/ (pc = "panic" /\ err = "IOError")
           /\ points # None
    /\ (pc = "write" /\ file = "created") =>
           /\ [err |-> "ok", bb |-> points] = GlobalBB(ConvertAll(outlines))
           /\ shapes = Normalized(ConvertAll(outlines), points)

\* An earlier glyph converted, a later glyph fails.
C5_Witness ==
    /\ pc = "panic"
    /\ err = "GeometryError"
    /\ Len(shapes) >= 1
    /\ file = "absent"

\* C6: the collection holds exactly one Shape per glyph with a non-empty
\* command sequence, in layout order; a glyph without commands is skipped
\* without error and changes nothing.  The collection is compared between
\* glyphs and before normalization; inside a glyph it does not change.
C6_OneShapePerGlyph ==
    /\ Len(shapes) = Cardinality(NonEmptyOutlines)
    /\ pc \in {"symbols", "bb", "remap"} => shapes = ConvertAll(outlines)
    /\ pc = "symbols" => err = "ok"

\* A glyph with geometry followed by a glyph without commands.
C6_Witness ==
    /\ pc = "bb"
    /\ Len(outlines) = 2
    /\ outlines[2] = Some(<<>>)
    /\ Len(shapes) = 1
    /\ shapes[1].primitives # <<>>

AllPoints(shs) ==
    UNION {{shs[s].primitives[i].pts[j] : j \in DOMAIN shs[s].primitives[i].pts} :
              <<s, i>> \in {si \in (DOMAIN shs) \X (1 .. MaxCmds + 1) :
                               si[2] \in DOMAIN shs[si[1]].primitives}}

\* C7: the folded global bounding box is the component-wise minimum and
\* maximum over every end point and control point of every primitive of
\* every shape, so min.x <= max.x and min.y <= max.y.
C7_GlobalBoundingBox ==
    pc = "remap" =>
        LET P == AllPoints(shapes)
            xs == {p[1] : p \in P}
            ys == {p[2] : p \in P}
        IN  /\ points = <<(<<MinOf(xs), MinOf(ys)>>), (<<MaxOf(xs), MaxOf(ys)>>)>>
            /\ points[1][1] <= points[2][1]
            /\ points[1][2] <= points[2][2]

\* Two shapes, and the global box is neither shape's own box.
C7_Witness ==
    /\ pc = "remap"
    /\ Len(shapes) = 2
    /\ get_bb(shapes[1]).bb # points
    /\ get_bb(shapes[2]).bb # points

\* The state right after normalization; the collection is not changed later.
JustNormalized == pc = "create"

\* Raw and normalized y of every point of the collection, pairwise; the
\* normalized y' = 1 is the quantized value 1000.
YPairs ==
    LET raw == ConvertAll(outlines)
    IN  {<<raw[s].primitives[i].pts[j][2], shapes[s].primitives[i].pts[j][2]>> :
            <<s, i, j>> \in {t \in (DOMAIN shapes) \X (1 .. MaxCmds + 1) \X (1 .. 4) :
                                /\ t[2] \in DOMAIN shapes[t[1]].primitives
                                /\ t[3] \in DOMAIN shapes[t[1]].primitives[t[2]].pts}}

\* C8 as stated: in every normalized collection the points at the global
\* min.y have y' = 0 and the points at the global max.y have y' = 1.
C8_Original ==
    JustNormalized =>
        \A yy \in YPairs :
            /\ yy[1] = points[1][2] => yy[2] = 0
            /\ yy[1] = points[2][2] => yy[2] = 1000

\* C8 amended: when max.y > min.y the points at the global min.y have
\* y' = 0 and the points at the global max.y have y' = 1; when every point
\* shares one y (max.y = min.y) every point has y' = 0.
C8_UnitHeight ==
    JustNormalized =>
        \A yy \in YPairs :
            IF points[2][2] > points[1][2]
            THEN /\ yy[1] = points[1][2] => yy[2] = 0
                 /\ yy[1] = points[2][2] => yy[2] = 1000
            ELSE yy[2] = 0

\* A collection with a vertical extent, normalized.
C8_Witness ==
    /\ JustNormalized
    /\ points[2][2] > points[1][2]
    /\ \E yy \in YPairs : yy[1] = points[2][2] /\ yy[2] = 1000
    /\ \E yy \in YPairs : yy[1] = points[1][2] /\ yy[2] = 0
    /\ \E yy \in YPairs : yy[2] \notin {0, 1000}

CloseCommand == [cmd |-> "Close", pts |-> <<>>]

\* C9: a Close with last_point and first_point set emits exactly one
\* Line(last_point, first_point), moves last_point to first_point and clears
\* first_point; a Close with first_point unset aborts with GeometryError
\* even when last_point is set, so a Close that follows a Close with no
\* MoveTo between them always aborts.
C9_Close ==
    /\ [][(pc = "commands" /\ commands' = Append(commands, CloseCommand)) =>
             IF last_point # None /\ first_point # None
             THEN /\ primitives' =
                         Append(primitives, Line(Unwrap(last_point), Unwrap(first_point)))
                  /\ last_point' = first_point
                  /\ first_point' = None
                  /\ pc' = "commands"
             ELSE /\ pc' = "panic"
                  /\ err' = "GeometryError"
                  /\ primitives' = primitives]_vars
    /\ [](pc = "commands" =>
             \A j \in 1 .. (Len(commands) - 1) :
                 ~(IsClose(commands[j]) /\ IsClose(commands[j + 1])))

\* MoveTo, Close, Close: the second Close aborts although last_point is set.
C9_Witness ==
    /\ pc = "panic"
    /\ err = "GeometryError"
    /\ last_point # None
    /\ first_point = None
    /\ Len(commands) = 3
    /\ IsClose(commands[2])
    /\ IsClose(commands[3])
    /\ Len(primitives) = 1

\* C10: every Shape of the collection has at least one primitive, so the
\* per-shape bounding box never fails with EmptyInputError.
C10_ShapesNonEmpty ==
    /\ \A s \in DOMAIN shapes : shapes[s].primitives # <<>>
    /\ ~(pc = "panic" /\ err = "EmptyInputError" /\ shapes # <<>>)

====
